---- MODULE Spec2Model ----
(***************************************************************************)
(* The relay server of tendau/aether (src/server.py): three module-level   *)
(* dictionaries, four aiohttp request handlers and the idle-agent sweep.   *)
(*                                                                         *)
(* Handlers are asyncio coroutines on one event loop: the code between two *)
(* awaits runs without interleaving, so every action below is one such     *)
(* run, from the resumption of a coroutine to its next suspension (or its  *)
(* return).  The suspension points of the server are the awaits on         *)
(* response.prepare, response/connection.write + drain and asyncio.sleep.  *)
(***************************************************************************)
EXTENDS Integers, Sequences, FiniteSets, TLC

\* ---------------------------------------------------------------- bounds
NumAgents == 2        \* agent ids are 1..NumAgents
NumConns == 2         \* GET /events requests (stream responses) over a run
NumSenders == 1       \* POST /send handlers that can be in flight at once
MaxMsgs == 2          \* messages accepted by /send over a run
MaxSeq == 3           \* messages accepted by /send where their order is followed
MaxTicks == 2         \* the clock advances this many times
MaxReapMsgs == 1      \* messages accepted by /send where the clock advances
MaxEntries == 4       \* slots of the message_queues dict while it is iterated
MaxAliveTicks == 11   \* keepalive intervals the clock advances by

\* ------------------------------------------------------ program constants
max_idle_time == 300  \* cleanup_inactive_agents(max_idle_time=300)

Agents == 1..NumAgents
NoId == 0             \* a missing or empty agent_id / sender_id (falsy)
Ids == Agents \cup {NoId}
Conns == 1..NumConns
Senders == 1..NumSenders
NoContent == ""       \* a missing or empty content (falsy)
Contents == {"hi", NoContent}
Tomb == 0             \* a deleted slot of a dict's entry array
TimeStep == max_idle_time   \* the clock advances in steps of 300
MaxTime == MaxTicks * TimeStep

VARIABLES
    now,              \* time.time()
    message_queues,   \* dict agent_id -> list of messages
    mq_entries,       \* the entry array of message_queues (insertion order)
    sse_connections,  \* dict agent_id -> set of stream responses
    agent_last_seen,  \* dict agent_id -> timestamp
    snd,              \* the send_message coroutines: Senders -> frame
    ev,               \* the events coroutines, one per stream response
    conn_open,        \* response -> its transport accepts writes
    force_closed,     \* response -> force_close() was called on it
    written,          \* response -> the data frames written to it, in order
    resp,             \* the HTTP response the step just taken returned,
                      \* NoResp when it returned none
    next_seq,         \* number of messages created so far
    registered,       \* history: ids registered or subscribed and not
                      \* reaped since
    offline,          \* history: <<agent, seq>> of the messages queued for
                      \* an agent that had no live connection
    client,           \* the SSEClient object of one agent (src/sse_client.py)
    listener          \* its sse_task: the _listen_for_events coroutine

vars == <<now, message_queues, mq_entries, sse_connections, agent_last_seen,
          snd, ev, conn_open, force_closed, written, resp, next_seq,
          registered, offline, client, listener>>

cvars == <<client, listener>>

hist == <<registered, offline>>

registry == <<message_queues, mq_entries, sse_connections, agent_last_seen>>

\* ------------------------------------------------------------ dict helpers
Keys(d) == DOMAIN d

\* d[k] = v, creating the key when it is absent
DictSet(d, k, v) == [x \in Keys(d) \cup {k} |-> IF x = k THEN v ELSE d[x]]

\* del d[k]
DictDel(d, k) == [x \in Keys(d) \ {k} |-> d[x]]

EmptyDict == [x \in {} |-> 0]

RECURSIVE Compact(_)
Compact(s) ==
    IF s = <<>> THEN <<>>
    ELSE IF Head(s) = Tomb THEN Compact(Tail(s))
    ELSE <<Head(s)>> \o Compact(Tail(s))

\* A dict iterator is live while a send_message coroutine is suspended
\* inside "for agent_id in message_queues.keys()".
Iterating == \E p \in Senders : snd[p].pc = "write"

\* The entry array after inserting a new key: a new entry is appended.
\* Deleted slots matter only to a live iterator, so they are dropped when
\* there is none.
EntriesIns(e, k) == IF Iterating THEN Append(e, k) ELSE Append(Compact(e), k)

\* The entry array after deleting a key: its slot becomes a dummy.
EntriesDel(e, k) ==
    LET t == [i \in 1..Len(e) |-> IF e[i] = k THEN Tomb ELSE e[i]]
    IN IF Iterating THEN t ELSE Compact(t)

\* First live slot at or after position pos, 0 when there is none
\* (dictiter_iternextkey skips the dummies).
NextEntry(e, pos) ==
    LET live == {i \in pos..Len(e) : e[i] # Tomb}
    IN IF live = {} THEN 0 ELSE CHOOSE i \in live : \A j \in live : i <= j

\* ------------------------------------------------------------ initial state
NoMsg == [type |-> "none", from |-> NoId, content |-> NoContent,
          timestamp |-> 0, seq |-> 0]

SendIdle ==
    [pc |-> "idle", sender_id |-> NoId, message |-> NoMsg,
     di_used |-> 0, di_pos |-> 0, di_len |-> 0, agent_id |-> NoId,
     si_used |-> 0, todo |-> {}, visited |-> {}, orphan |-> FALSE, cset |-> {},
     conn |-> 0, snap |-> {}, tried |-> {}]

EvIdle ==
    [pc |-> "idle", agent_id |-> NoId, i |-> 0, orphan |-> FALSE, olist |-> <<>>]

NoResp ==
    [op |-> "none", status |-> 0, id |-> NoId, seq |-> 0,
     snap |-> {}, tried |-> {}, agents |-> {}]

\* The client after construction (src/sse_client.py)
reconnect_delay == 1         \* "reconnect_delay = 1" (130, 145)
NoLine == [prefix |-> "", payload |-> ""]


\* The client object after __init__ (15-23); call, ret and posted describe
\* the step just taken: the API call that returned, its result, and the
\* request it put on the wire.  reg_hist is history: a register call has
\* succeeded and close was not called since.
ClientInit ==
    [session |-> FALSE, is_registered |-> FALSE, is_listening |-> FALSE,
     message_handlers |-> <<>>, pc |-> "idle", pending |-> 0,
     call |-> "none", ret |-> FALSE, posted |-> "none", reg_hist |-> FALSE]

\* The frame of _listen_for_events; "none" before start_listening.
\* streams, lines, fails, dispatched, seen, stopped, cancelled_at are
\* history: the successful opens, the lines read, the failures since the last
\* successful open, the handler calls, the failures of decoding and of
\* handlers met, and the cancellation.
ListenerInit ==
    [pc |-> "none", reconnect_delay |-> reconnect_delay, line |-> NoLine,
     hidx |-> 0, called |-> <<>>, streams |-> 0, lines |-> 0, fails |-> 0,
     dispatched |-> 0, seen |-> {}, stopped |-> FALSE, cancelled_at |-> "none"]

Init ==
    /\ now = 0
    /\ message_queues = EmptyDict
    /\ mq_entries = <<>>
    /\ sse_connections = EmptyDict
    /\ agent_last_seen = EmptyDict
    /\ snd = [p \in Senders |-> SendIdle]
    /\ ev = [c \in Conns |-> EvIdle]
    /\ conn_open = [c \in Conns |-> TRUE]
    /\ force_closed = [c \in Conns |-> FALSE]
    /\ written = [c \in Conns |-> <<>>]
    /\ resp = NoResp
    /\ next_seq = 0
    /\ registered = {}
    /\ offline = {}
    /\ client = ClientInit
    /\ listener = ListenerInit

\* ------------------------------------------------------------------- clock
Tick(d) ==
    /\ now + d <= MaxTime
    /\ now' = now + d
    /\ resp' = NoResp
    /\ UNCHANGED <<cvars, registry, snd, ev, conn_open, force_closed, written,
                   next_seq, hist>>

\* ------------------------------------------------- POST /register (25-46)
\* "if not agent_id: return 400"
RegisterInvalid ==
    /\ resp' = [NoResp EXCEPT !.op = "register", !.status = 400]
    /\ UNCHANGED <<cvars, now, registry, snd, ev, conn_open, force_closed, written,
                   next_seq, hist>>

\* (a register that initialises the queue without looking)
EnsureQueuesReset(mq, id) == DictSet(mq, id, <<>>)

\* "if agent_id not in message_queues": both per-agent containers are created
EnsureQueues(mq, id) == IF id \in Keys(mq) THEN mq ELSE DictSet(mq, id, <<>>)
EnsureEntries(mq, e, id) == IF id \in Keys(mq) THEN e ELSE EntriesIns(e, id)
EnsureConns(mq, sc, id) == IF id \in Keys(mq) THEN sc ELSE DictSet(sc, id, {})

\* A list or set object that was the value of a deleted or overwritten key
\* lives on in the coroutines that are iterating it.
OrphanSets(s, gone) ==
    [p \in Senders |->
        IF s[p].pc = "write" /\ ~s[p].orphan /\ s[p].agent_id \in gone
        THEN [s[p] EXCEPT !.orphan = TRUE, !.cset = sse_connections[s[p].agent_id]]
        ELSE s[p]]

OrphanLists(e, gone, except) ==
    [c \in Conns |->
        IF c # except /\ e[c].pc = "drain" /\ ~e[c].orphan /\ e[c].agent_id \in gone
        THEN [e[c] EXCEPT !.orphan = TRUE, !.olist = message_queues[e[c].agent_id]]
        ELSE e[c]]

register_agent(id) ==
    /\ id \in Agents
    /\ id \notin Keys(message_queues) => Len(mq_entries) < MaxEntries
    /\ message_queues' = EnsureQueues(message_queues, id)
    /\ mq_entries' = EnsureEntries(message_queues, mq_entries, id)
    /\ sse_connections' = EnsureConns(message_queues, sse_connections, id)
    /\ snd' = IF id \in Keys(message_queues) THEN snd
              ELSE OrphanSets(snd, {id} \cap Keys(sse_connections))
    /\ agent_last_seen' = DictSet(agent_last_seen, id, now)
    /\ resp' = [NoResp EXCEPT !.op = "register", !.status = 200, !.id = id]
    /\ registered' = registered \cup {id}
    /\ UNCHANGED <<now, ev, conn_open, force_closed, written, next_seq,
                   offline>>

\* POST /register from any agent
Register(id) == register_agent(id) /\ UNCHANGED cvars

\* --------------------------------------- cleanup_inactive_agents (154-176)
\* (a sweep that evicts at the threshold)
InactiveAtThreshold(t) ==
    {a \in Keys(agent_last_seen) : t - agent_last_seen[a] >= max_idle_time}

Inactive(t) ==
    {a \in Keys(agent_last_seen) : t - agent_last_seen[a] > max_idle_time}

RECURSIVE DelAll(_, _)
DelAll(e, ks) ==
    IF ks = {} THEN e
    ELSE LET k == CHOOSE x \in ks : TRUE IN DelAll(EntriesDel(e, k), ks \ {k})

Cleanup ==
    LET gone == Inactive(now)
        goneq == gone \cap Keys(message_queues)
        gonec == gone \cap Keys(sse_connections)
        closed == UNION {sse_connections[a] : a \in gonec}
    IN /\ message_queues' = [a \in Keys(message_queues) \ gone |-> message_queues[a]]
       /\ mq_entries' = DelAll(mq_entries, goneq)
       /\ force_closed' = [c \in Conns |-> force_closed[c] \/ c \in closed]
       /\ sse_connections' = [a \in Keys(sse_connections) \ gone |-> sse_connections[a]]
       /\ agent_last_seen' = [a \in Keys(agent_last_seen) \ gone |-> agent_last_seen[a]]
       /\ snd' = OrphanSets(snd, gonec)
       /\ ev' = OrphanLists(ev, goneq, 0)
       /\ registered' = registered \ gone

\* cleanup_task (178-188): one sweep per wake-up
CleanupTask ==
    /\ Cleanup
    /\ resp' = NoResp
    /\ UNCHANGED <<cvars, now, conn_open, written, next_seq, offline>>

\* GET /agents (146-152)
ListAgents ==
    /\ Cleanup
    /\ resp' = [NoResp EXCEPT !.op = "agents", !.status = 200,
                              !.agents = Keys(message_queues')]
    /\ UNCHANGED <<cvars, now, conn_open, written, next_seq, offline>>

\* ----------------------------------------------------- POST /send (48-88)
\* (a send that touches the sender before it validates the request)
SendInvalidTouch(sender, content) ==
    /\ sender = NoId \/ content = NoContent
    /\ resp' = [NoResp EXCEPT !.op = "send", !.status = 400]
    /\ agent_last_seen' = DictSet(agent_last_seen, sender, now)
    /\ UNCHANGED <<cvars, now, message_queues, mq_entries, sse_connections, snd, ev,
                   conn_open, force_closed, written, next_seq, hist>>

\* "if not sender_id or not content: return 400"
SendInvalid(sender, content) ==
    /\ sender = NoId \/ content = NoContent
    /\ resp' = [NoResp EXCEPT !.op = "send", !.status = 400]
    /\ UNCHANGED <<cvars, now, registry, snd, ev, conn_open, force_closed, written,
                   next_seq, hist>>

\* The set object a suspended fan-out is iterating.
CurSet(loc) ==
    IF loc.orphan THEN loc.cset
    ELSE IF loc.agent_id \in Keys(sse_connections)
         THEN sse_connections[loc.agent_id] ELSE {}

\* One run of the fan-out, from a next() of an iterator to the next await
\* or to the return.  st = [loc, mq, wr, status]: the coroutine's frame, the
\* queues, the frames written, and 0 (suspended) or the HTTP status.
\* The result is the set of states the run can end in: a set is iterated in
\* an order the program does not control.
RECURSIVE SendRun(_)
RECURSIVE SendConn(_)

\* (a fan-out that does not leave the sender out)
IsRecipientAny(agent_id, sender_id) == TRUE

\* "if agent_id != sender_id" (71)
IsRecipient(agent_id, sender_id) == agent_id # sender_id

\* "except Exception as e: return 500" (86-88)
SendFail(st) == [st EXCEPT !.status = 500]

\* "for agent_id in message_queues.keys()" (70-73)
SendRun(st) ==
    LET loc == st.loc
        j == NextEntry(mq_entries, loc.di_pos)
    IN IF loc.di_used # Cardinality(Keys(st.mq))
       THEN {SendFail(st)}       \* dictionary changed size during iteration
       ELSE IF j = 0
       THEN {[st EXCEPT !.status = 200]}
       ELSE IF loc.di_len = 0
       THEN {SendFail(st)}       \* dictionary keys changed during iteration
       ELSE LET a == mq_entries[j]
                loc1 == [loc EXCEPT !.di_pos = j + 1, !.di_len = @ - 1,
                                    !.agent_id = a]
            IN IF ~IsRecipient(a, loc.sender_id)
               THEN SendRun([st EXCEPT !.loc = loc1])
               ELSE LET has == a \in Keys(sse_connections)
                        S == IF has THEN sse_connections[a] ELSE {}
                        loc2 == [loc1 EXCEPT !.si_used = Cardinality(S),
                                             !.todo = S, !.visited = {},
                                             !.orphan = ~has, !.cset = {},
                                             !.tried = @ \cup {a}]
                    IN SendConn([st EXCEPT
                                   !.loc = loc2,
                                   !.mq[a] = Append(@, loc.message)])

\* "for connection in sse_connections.get(agent_id, set())" (76-81)
SendConn(st) ==
    LET loc == st.loc
        cur == CurSet(loc)
        cand == cur \ loc.visited
        over == [st EXCEPT !.loc.si_used = 0, !.loc.todo = {},
                           !.loc.visited = {}, !.loc.orphan = FALSE,
                           !.loc.cset = {}, !.loc.conn = 0]
        Visit(c) ==
            LET st1 == [st EXCEPT !.loc.visited = @ \cup {c},
                                  !.loc.todo = @ \ {c}]
            IN IF conn_open[c]
               THEN {[st1 EXCEPT !.loc.pc = "write", !.loc.conn = c,
                                 !.wr[c] = Append(@, loc.message)]}
               ELSE SendConn(st1)   \* write raises, "except Exception" logs
    IN IF Cardinality(cur) # loc.si_used
       THEN {SendFail(st)}       \* Set changed size during iteration
       ELSE (IF cand \cap loc.todo = {} THEN SendRun(over) ELSE {})
            \cup UNION {Visit(c) : c \in cand}

SendApply(p, o) ==
    /\ message_queues' = o.mq
    /\ written' = o.wr
    /\ offline' = offline \cup
         {<<a, o.loc.message.seq>> : a \in
            {b \in o.loc.tried \ snd[p].tried :
                b \notin Keys(sse_connections) \/ sse_connections[b] = {}}}
    /\ UNCHANGED registered
    /\ IF o.status = 0
       THEN /\ snd' = [snd EXCEPT ![p] = o.loc]
            /\ resp' = NoResp
            /\ UNCHANGED mq_entries
       ELSE /\ snd' = [snd EXCEPT ![p] = SendIdle]
            /\ resp' = [NoResp EXCEPT !.op = "send", !.status = o.status,
                                      !.id = o.loc.sender_id,
                                      !.seq = o.loc.message.seq,
                                      !.snap = o.loc.snap,
                                      !.tried = o.loc.tried]
            /\ mq_entries' =
                 IF \E q \in Senders \ {p} : snd[q].pc = "write"
                 THEN mq_entries ELSE Compact(mq_entries)

send_message(p, sender, content) ==
    /\ snd[p].pc = "idle"
    /\ sender \in Agents
    /\ content # NoContent
    /\ next_seq < MaxSeq
    /\ next_seq' = next_seq + 1
    /\ agent_last_seen' = DictSet(agent_last_seen, sender, now)
    /\ LET message == [type |-> "message", from |-> sender,
                       content |-> content, timestamp |-> now,
                       seq |-> next_seq + 1]
           loc == [SendIdle EXCEPT !.sender_id = sender, !.message = message,
                                   !.di_used = Cardinality(Keys(message_queues)),
                                   !.di_pos = 1,
                                   !.di_len = Cardinality(Keys(message_queues)),
                                   !.snap = Keys(message_queues)]
       IN \E o \in SendRun([loc |-> loc, mq |-> message_queues,
                            wr |-> written, status |-> 0]) : SendApply(p, o)
    /\ UNCHANGED <<now, sse_connections, ev, conn_open, force_closed>>

\* POST /send from any agent
SendStart(p, sender, content) ==
    send_message(p, sender, content) /\ UNCHANGED cvars

\* "await connection.write(...)" / "await connection.drain()" returns or
\* raises into "except Exception" (77-81); either way the loop goes on.
SendResume(p) ==
    /\ snd[p].pc = "write"
    /\ \E o \in SendConn([loc |-> [snd[p] EXCEPT !.pc = "idle"],
                          mq |-> message_queues,
                          wr |-> written, status |-> 0]) : SendApply(p, o)
    /\ UNCHANGED <<cvars, now, sse_connections, agent_last_seen, ev, conn_open,
                   force_closed, next_seq>>

\* ----------------------------------------------------- GET /events (90-144)
\* "if not agent_id: return 400"
EventsInvalid ==
    /\ resp' = [NoResp EXCEPT !.op = "events", !.status = 400]
    /\ UNCHANGED <<cvars, now, registry, snd, ev, conn_open, force_closed, written,
                   next_seq, hist>>

\* Stream responses are numbered in the order the requests arrive.
FreshConn(c) == ev[c].pc = "idle" /\ \A d \in Conns : d < c => ev[d].pc # "idle"

\* Lines 92-110: ensure the record, touch it, "await response.prepare(request)"
EventsStart(c, id) ==
    /\ FreshConn(c)
    /\ id \in Agents
    /\ id \notin Keys(message_queues) => Len(mq_entries) < MaxEntries
    /\ message_queues' = EnsureQueues(message_queues, id)
    /\ mq_entries' = EnsureEntries(message_queues, mq_entries, id)
    /\ sse_connections' = EnsureConns(message_queues, sse_connections, id)
    /\ snd' = IF id \in Keys(message_queues) THEN snd
              ELSE OrphanSets(snd, {id} \cap Keys(sse_connections))
    /\ agent_last_seen' = DictSet(agent_last_seen, id, now)
    /\ ev' = [ev EXCEPT ![c] = [EvIdle EXCEPT !.pc = "prepare", !.agent_id = id]]
    /\ resp' = NoResp
    /\ registered' = registered \cup {id}
    /\ UNCHANGED <<cvars, now, conn_open, force_closed, written, next_seq, offline>>

\* The part of the state an events coroutine can change in one run.
EvState ==
    [mq |-> message_queues, ent |-> mq_entries, sc |-> sse_connections,
     als |-> agent_last_seen, ev |-> ev, open |-> conn_open, wr |-> written]

EvApply(st) ==
    /\ message_queues' = st.mq
    /\ mq_entries' = st.ent
    /\ sse_connections' = st.sc
    /\ agent_last_seen' = st.als
    /\ ev' = st.ev
    /\ conn_open' = st.open
    /\ written' = st.wr
    /\ resp' = NoResp
    /\ UNCHANGED <<cvars, now, snd, force_closed, next_seq, hist>>

\* The handler is left (by return or by an exception): the response is over.
EvDone(c, st) ==
    [st EXCEPT !.ev[c] = [EvIdle EXCEPT !.pc = "done",
                                        !.agent_id = st.ev[c].agent_id],
               !.open[c] = FALSE]

\* (a handler that leaves without detaching its response)
EvFinallyKeeps(c, st) == EvDone(c, st)

\* "finally:" (139-144): remove the response from the agent's set if there
EvFinally(c, st) ==
    LET a == st.ev[c].agent_id
    IN EvDone(c, IF a \in Keys(st.sc) /\ c \in st.sc[a]
                 THEN [st EXCEPT !.sc[a] = @ \ {c}]
                 ELSE st)

\* "await response.write(b': ping')" (127-128): raises when the transport
\* is closing, else the coroutine is suspended in the write
EvPing(c, st) ==
    IF st.open[c] THEN [st EXCEPT !.ev[c].pc = "ping"] ELSE EvFinally(c, st)

\* The list object the drain loop is iterating.
CurList(loc) ==
    IF loc.orphan THEN loc.olist ELSE message_queues[loc.agent_id]

\* "for message in message_queues[agent_id]" (117-119) at index i, then
\* "message_queues[agent_id] = []" (122) and the first ping
EvDrain(c, st) ==
    LET loc == st.ev[c]
        a == loc.agent_id
        L == CurList(loc)
    IN IF loc.i < Len(L)
       THEN IF st.open[c]
            THEN [st EXCEPT !.wr[c] = Append(@, L[loc.i + 1])]
            ELSE EvFinally(c, st)
       ELSE LET others == OrphanLists(st.ev, {a} \cap Keys(st.mq), c)
                cleared == [st EXCEPT
                    !.mq = DictSet(st.mq, a, <<>>),
                    !.ent = EnsureEntries(st.mq, st.ent, a),
                    !.ev = [others EXCEPT ![c].i = 0, ![c].orphan = FALSE,
                                          ![c].olist = <<>>]]
            IN EvPing(c, cleared)

\* response.prepare returned or raised; then lines 112-119
EventsPrepared(c) ==
    /\ ev[c].pc = "prepare"
    /\ LET a == ev[c].agent_id
           st == EvState
       IN IF ~conn_open[c] \/ a \notin Keys(sse_connections)
          THEN EvApply(EvDone(c, st))      \* raised outside the try
          ELSE LET st1 == [st EXCEPT !.sc[a] = @ \cup {c}, !.ev[c].pc = "drain"]
               IN IF a \notin Keys(message_queues)
                  THEN EvApply(EvFinally(c, st1))   \* KeyError inside the try
                  ELSE EvApply(EvDrain(c, st1))

\* the write of a queued message returned or raised
EventsDrained(c) ==
    /\ ev[c].pc = "drain"
    /\ IF conn_open[c]
       THEN EvApply(EvDrain(c, [EvState EXCEPT !.ev[c].i = @ + 1]))
       ELSE EvApply(EvFinally(c, EvState))

\* (a keepalive that stamps the time at which the relay started)
EventsPingedStale(c) ==
    /\ ev[c].pc = "ping"
    /\ IF conn_open[c]
       THEN EvApply([EvState EXCEPT
                !.als = DictSet(agent_last_seen, ev[c].agent_id, 0),
                !.ev[c].pc = "sleep"])
       ELSE EvApply(EvFinally(c, EvState))

\* the ping write returned or raised; "agent_last_seen[agent_id] = time.time()"
\* (131) and "await asyncio.sleep(30)"
EventsPinged(c) ==
    /\ ev[c].pc = "ping"
    /\ IF conn_open[c]
       THEN EvApply([EvState EXCEPT
                !.als = DictSet(agent_last_seen, ev[c].agent_id, now),
                !.ev[c].pc = "sleep"])
       ELSE EvApply(EvFinally(c, EvState))

\* asyncio.sleep(30) returned: the next ping
EventsWake(c) ==
    /\ ev[c].pc = "sleep"
    /\ EvApply(EvPing(c, EvState))

\* The handler task is cancelled at its await: CancelledError (137-138)
\* inside the try, an escaping exception at response.prepare.
EventsCancel(c) ==
    /\ ev[c].pc \in {"prepare", "drain", "ping", "sleep"}
    /\ IF ev[c].pc = "prepare"
       THEN EvApply(EvDone(c, EvState))
       ELSE EvApply(EvFinally(c, EvState))

\* The peer goes away: the transport of the response is closing.
PeerClose(c) ==
    /\ ev[c].pc \in {"prepare", "drain", "ping", "sleep"}
    /\ conn_open[c]
    /\ conn_open' = [conn_open EXCEPT ![c] = FALSE]
    /\ resp' = NoResp
    /\ UNCHANGED <<cvars, now, registry, snd, ev, force_closed, written, next_seq,
                   hist>>

\* ------------------------------------------------------- specifications
\* The requests and the runs of the coroutines.
Requests ==
    \/ \E id \in Agents : Register(id)
    \/ \E p \in Senders : SendResume(p)
    \/ \E c \in Conns, id \in Agents : EventsStart(c, id)
    \/ \E c \in Conns : EventsPrepared(c)
    \/ \E c \in Conns : EventsDrained(c)
    \/ \E c \in Conns : EventsPinged(c)
    \/ \E c \in Conns : EventsWake(c)
    \/ \E c \in Conns : EventsCancel(c)
    \/ \E c \in Conns : PeerClose(c)

\* All handlers run within one instant of the clock, so no agent becomes
\* idle and the sweep has nothing to do; requests may lack their fields.
Next ==
    \/ Requests
    \/ \E p \in Senders, sender \in Agents, content \in Contents :
          next_seq < MaxMsgs /\ SendStart(p, sender, content)
    \/ RegisterInvalid
    \/ \E sender \in Ids, content \in Contents : SendInvalid(sender, content)
    \/ EventsInvalid

Spec == Init /\ [][Next]_vars

\* The clock advances and the sweep runs, from cleanup_task and from
\* GET /agents; at most MaxReapMsgs messages are sent.
NextReap ==
    \/ Requests
    \/ \E p \in Senders, sender \in Agents, content \in Contents :
          next_seq < MaxReapMsgs /\ SendStart(p, sender, content)
    \/ Tick(TimeStep)
    \/ CleanupTask
    \/ ListAgents

SpecReap == Init /\ [][NextReap]_vars

\* The order of the frames on the streams: the last agent sends up to
\* MaxSeq messages, the other agents register and subscribe; no request is
\* invalid.
NextOrder ==
    \/ \E id \in Agents \ {NumAgents} : Register(id)
    \/ \E p \in Senders : SendStart(p, NumAgents, "hi")
    \/ \E p \in Senders : SendResume(p)
    \/ \E c \in Conns, id \in Agents \ {NumAgents} : EventsStart(c, id)
    \/ \E c \in Conns : EventsPrepared(c)
    \/ \E c \in Conns : EventsDrained(c)
    \/ \E c \in Conns : EventsPinged(c)
    \/ \E c \in Conns : EventsWake(c)
    \/ \E c \in Conns : EventsCancel(c)
    \/ \E c \in Conns : PeerClose(c)

SpecOrder == Init /\ [][NextOrder]_vars

\* (a keepalive interval longer than the idle threshold)
PingIntervalLong == max_idle_time + 30

\* "await asyncio.sleep(30)" (133)
PingInterval == 30

\* The handler of stream response c is suspended at one of its awaits.
Running(c) == ev[c].pc \in {"prepare", "drain", "ping", "sleep"}

\* A stream whose handler is running and whose transport accepts writes.
Healthy(c) == Running(c) /\ conn_open[c]

\* The clock of a relay whose open streams are served without delay: a
\* write to an open transport returns within the instant, and the sleep of
\* a keepalive loop ends after PingInterval.  The sleep follows the stamp
\* of line 131 with no await in between and every later stamp is later, so
\* agent_last_seen[agent_id] + PingInterval is not before the end of the
\* sleep.
TickAlive ==
    /\ now < MaxAliveTicks * PingInterval
    /\ \A c \in Conns :
          Healthy(c) =>
             /\ ev[c].pc = "sleep"
             /\ ev[c].agent_id \in Keys(agent_last_seen) =>
                   now + PingInterval
                      <= agent_last_seen[ev[c].agent_id] + PingInterval
    /\ Tick(PingInterval)

\* The relay over more than max_idle_time: an agent registers before it
\* subscribes (LocalAgent.setup) and not while a stream of its own is
\* served, so that nothing but its stream keeps a listening agent alive; no
\* message is sent, and cleanup_task sweeps.
NextAlive ==
    \/ \E id \in Agents :
          (\A c \in Conns : ev[c].agent_id = id => ~Running(c)) /\ Register(id)
    \/ \E c \in Conns, id \in Agents : EventsStart(c, id)
    \/ \E c \in Conns : EventsPrepared(c)
    \/ \E c \in Conns : EventsPinged(c)
    \/ \E c \in Conns : EventsWake(c)
    \/ \E c \in Conns : EventsCancel(c)
    \/ \E c \in Conns : PeerClose(c)
    \/ TickAlive
    \/ CleanupTask

SpecAlive == Init /\ [][NextAlive]_vars

\* The lifetime of the service: the requests of the agents over one stream
\* response, the clock, and cleanup_task (178-188), whose loop sweeps again
\* after every sleep and after every failure of a sweep, so the sweep and
\* the clock are never put off for ever.
NextTick ==
    \/ \E id \in Agents : Register(id)
    \/ \E p \in Senders, sender \in Agents, content \in Contents :
          next_seq < MaxReapMsgs /\ SendStart(p, sender, content)
    \/ \E p \in Senders : SendResume(p)
    \/ \E c \in Conns, id \in Agents :
          (\A d \in Conns : ev[d].pc = "idle") /\ EventsStart(c, id)
    \/ \E c \in Conns : EventsPrepared(c)
    \/ \E c \in Conns : EventsDrained(c)
    \/ \E c \in Conns : EventsPinged(c)
    \/ \E c \in Conns : EventsWake(c)
    \/ \E c \in Conns : EventsCancel(c)
    \/ \E c \in Conns : PeerClose(c)
    \/ Tick(TimeStep)
    \/ CleanupTask

SpecTick ==
    Init /\ [][NextTick]_vars /\ WF_vars(CleanupTask) /\ WF_vars(Tick(TimeStep))


\* ------------------------------------------- SSEClient (src/sse_client.py)
\* One client object, of the agent self_agent_id.  Its HTTP requests reach the
\* handlers above; the stream it listens to is any HTTP peer: the opens, the
\* lines and the ends of the stream are inputs.
MaxFails == 8         \* failures in a row of the listening task
MaxStreams == 2       \* successful opens of the stream
MaxLines == 2         \* lines read from the streams
MaxHandlers == 2      \* length of message_handlers

self_agent_id == 1           \* self.agent_id
max_reconnect_delay == 60    \* "max_reconnect_delay = 60" (131)

Handlers == 1..MaxHandlers
Statuses == {200, 503}       \* status of the response to GET /events

\* A line of the stream: what it starts with and what follows.
Prefixes == {": ping", "data: ", "event: "}
Payloads == {"{json}", "garbage", " "}
Lines == [prefix : Prefixes, payload : Payloads]

\* "line.startswith(': ping')" (153), "line.startswith('data: ')" (157)
IsPing(line) == line.prefix = ": ping"
IsData(line) == line.prefix = "data: "

\* "line[6:].strip()" (158) and "not event or not event.strip()" (105)
Strip(payload) == IF payload = " " THEN "" ELSE payload
IsBlank(event) == Strip(event) = ""

\* (a parser that accepts every payload)
JsonLoadsAny(event) == TRUE

\* "json.loads(event)" (110) returns, it does not raise JSONDecodeError
JsonLoads(event) == event = "{json}"

\* The client object when a step returns nothing to a caller.
Quiet(c) == [c EXCEPT !.call = "none", !.ret = FALSE, !.posted = "none"]

ServerUnchanged ==
    UNCHANGED <<now, registry, snd, ev, conn_open, force_closed, written,
                resp, next_seq, hist>>

\* register (25-32): the session is created, the POST is sent; the relay
\* handles it, or the request fails on the way
ClientRegister(reaches) ==
    /\ client.pc = "idle"
    /\ IF reaches
       THEN /\ register_agent(self_agent_id)
            /\ client' = [Quiet(client) EXCEPT !.session = TRUE,
                             !.pc = "register", !.posted = "register",
                             !.pending = resp'.status]
       ELSE /\ ServerUnchanged
            /\ client' = [Quiet(client) EXCEPT !.session = TRUE,
                             !.pc = "register", !.posted = "register",
                             !.pending = 0]
    /\ UNCHANGED listener

\* register (33-48): the 200 response arrives, or the request raises or is
\* answered otherwise
ClientRegistered(fails) ==
    /\ client.pc = "register"
    /\ ~fails => client.pending = 200
    /\ client' = [Quiet(client) EXCEPT
                     !.pc = "idle", !.pending = 0, !.call = "register",
                     !.ret = ~fails,
                     !.is_registered = IF fails THEN @ ELSE TRUE,
                     !.reg_hist = IF fails THEN @ ELSE TRUE]
    /\ ServerUnchanged
    /\ UNCHANGED listener

\* (a send that does not look at is_registered)
NotRegisteredNever(c) == FALSE

\* "if not self.is_registered" (52)
NotRegistered(c) == ~c.is_registered

\* send_message (50-64): refused when not registered, else the POST is sent
ClientSend(content, reaches) ==
    /\ client.pc = "idle"
    /\ content # NoContent
    /\ IF NotRegistered(client)
       THEN /\ client' = [Quiet(client) EXCEPT !.call = "send", !.ret = FALSE]
            /\ ServerUnchanged
       ELSE IF reaches
       THEN /\ \E p \in Senders : send_message(p, self_agent_id, content)
            /\ resp'.op = "send"
            /\ client' = [Quiet(client) EXCEPT !.session = TRUE,
                             !.pc = "send", !.posted = "send",
                             !.pending = resp'.status]
       ELSE /\ ServerUnchanged
            /\ client' = [Quiet(client) EXCEPT !.session = TRUE,
                             !.pc = "send", !.posted = "send", !.pending = 0]
    /\ UNCHANGED listener

\* send_message (65-78): True exactly for a 200 that arrived
ClientSent(fails) ==
    /\ client.pc = "send"
    /\ ~fails => client.pending = 200
    /\ client' = [Quiet(client) EXCEPT !.pc = "idle", !.pending = 0,
                                       !.call = "send", !.ret = ~fails]
    /\ ServerUnchanged
    /\ UNCHANGED listener

\* add_message_handler (99-101)
AddHandler(h) ==
    /\ Len(client.message_handlers) < MaxHandlers
    /\ client' = [Quiet(client) EXCEPT !.message_handlers = Append(@, h)]
    /\ ServerUnchanged
    /\ UNCHANGED listener

\* ---------------------------------------- _listen_for_events (121-174)
\* "while True: try: self.is_listening = True; async with
\* self.session.get(url)" (133-137): the run up to the await of the GET
Opening(l) == [l EXCEPT !.pc = "open", !.hidx = 0, !.called = <<>>]

CanFail == listener.fails < MaxFails

\* "except Exception" (164-168): the error is logged, "await
\* asyncio.sleep(reconnect_delay)"
Failed(l) ==
    [l EXCEPT !.pc = "sleep_err", !.fails = @ + 1, !.hidx = 0,
              !.called = <<>>]

\* (a backoff without the ceiling)
NextDelayUncapped(d) == d * 2

\* "min(reconnect_delay * 2, max_reconnect_delay)" (141, 169)
NextDelay(d) ==
    IF d * 2 < max_reconnect_delay THEN d * 2 ELSE max_reconnect_delay

\* start_listening (176-180): a new task unless one is running
StartListening ==
    /\ listener.pc \in {"none", "done"}
    /\ listener' = [ListenerInit EXCEPT !.pc = "new",
                                        !.streams = listener.streams,
                                        !.lines = listener.lines]
    /\ client' = Quiet(client)
    /\ ServerUnchanged

\* The first run of the task (123-137)
ListenStart ==
    /\ listener.pc = "new"
    /\ listener' = Opening(listener)
    /\ client' = [Quiet(client) EXCEPT !.session = TRUE, !.is_listening = TRUE]
    /\ ServerUnchanged

\* The response to the GET arrives (138-149): a status other than 200 is
\* logged and slept on, a 200 resets the delay and the lines are read
ListenOpened(status) ==
    /\ listener.pc = "open"
    /\ IF status # 200 THEN CanFail ELSE listener.streams < MaxStreams
    /\ listener' =
         IF status # 200
         THEN [listener EXCEPT !.pc = "sleep_fail", !.fails = @ + 1]
         ELSE [listener EXCEPT !.pc = "read", !.fails = 0,
                               !.streams = @ + 1,
                               !.reconnect_delay = reconnect_delay]
    /\ client' = Quiet(client)
    /\ ServerUnchanged

\* The GET raises (connection refused, reset, session closed)
ListenOpenError ==
    /\ listener.pc = "open"
    /\ CanFail
    /\ listener' = Failed(listener)
    /\ client' = Quiet(client)
    /\ ServerUnchanged

\* asyncio.sleep returned (140-142 or 168-169): the delay is doubled,
\* "finally: self.is_listening = False", and the loop opens again
ListenSlept ==
    /\ listener.pc \in {"sleep_fail", "sleep_err"}
    /\ listener' = Opening([listener EXCEPT
                               !.reconnect_delay = NextDelay(@)])
    /\ client' = [Quiet(client) EXCEPT !.is_listening = TRUE]
    /\ ServerUnchanged

\* (a dispatch in which the failure of a handler ends the task)
HandlerFailedFatal(l) == [l EXCEPT !.pc = "done"]

\* "except Exception" of _process_sse_event (118-119): logged, the event is
\* over and the next line is read
HandlerFailed(l) ==
    [l EXCEPT !.pc = "read", !.hidx = 0, !.seen = @ \cup {"handler"}]

\* "except json.JSONDecodeError" (116-117)
DecodeFailed(l) == [l EXCEPT !.pc = "read", !.seen = @ \cup {"decode"}]

\* "for handler in self.message_handlers: await handler(data)" (113-114)
\* from index i on: the call of the next handler, or the end of the event
Dispatch(l, i) ==
    IF i < Len(client.message_handlers)
    THEN [l EXCEPT !.pc = "handler", !.hidx = i + 1,
                   !.called = Append(@, client.message_handlers[i + 1]),
                   !.dispatched = @ + 1]
    ELSE [l EXCEPT !.pc = "read", !.hidx = 0]

\* _process_sse_event (103-119) up to its first await
ProcessEvent(l, event) ==
    IF IsBlank(event) THEN l
    ELSE IF ~JsonLoads(event) THEN DecodeFailed(l)
    ELSE Dispatch(l, 0)

\* One line of the stream (149-159)
ListenLine(line) ==
    /\ listener.pc = "read"
    /\ listener.lines < MaxLines
    /\ LET l == [listener EXCEPT !.line = line, !.lines = @ + 1,
                                 !.called = <<>>]
       IN listener' = IF IsPing(line) THEN l
                      ELSE IF IsData(line)
                      THEN ProcessEvent(l, Strip(line.payload))
                      ELSE l
    /\ client' = Quiet(client)
    /\ ServerUnchanged

\* The stream ends cleanly: the loop over the lines is over, the response
\* is released, "finally" (171-172), and the loop opens again
ListenEof ==
    /\ listener.pc = "read"
    /\ listener' = Opening(listener)
    /\ client' = [Quiet(client) EXCEPT !.is_listening = TRUE]
    /\ ServerUnchanged

\* Reading the stream raises (reset, payload error, undecodable bytes)
ListenStreamError ==
    /\ listener.pc = "read"
    /\ CanFail
    /\ listener' = Failed(listener)
    /\ client' = Quiet(client)
    /\ ServerUnchanged

\* The handler that was awaited returns
HandlerReturns ==
    /\ listener.pc = "handler"
    /\ listener' = Dispatch(listener, listener.hidx)
    /\ client' = Quiet(client)
    /\ ServerUnchanged

\* The handler that was awaited raises
HandlerRaises ==
    /\ listener.pc = "handler"
    /\ listener' = HandlerFailed(listener)
    /\ client' = Quiet(client)
    /\ ServerUnchanged

\* (a cancellation that "except Exception" of _process_sse_event swallows)
CancelledSwallowed(l) ==
    IF l.pc = "handler" THEN HandlerFailed(l) ELSE [l EXCEPT !.pc = "done"]

\* CancelledError is thrown into the task where it is suspended.  In the try
\* block it is caught (161-163) and the loop is left; in a handler it passes
\* "except Exception" (118) and is caught at 161; in the sleep of the except
\* block (168) it leaves the coroutine; a task that never ran is dropped.
\* Every way passes "finally" (171-172) and the task is done.
Cancelled(l) == [l EXCEPT !.pc = "done"]

\* The client object and the task after "self.sse_task.cancel()" and
\* "await self.sse_task" (184-189)
Stopped(l) ==
    IF l.pc \in {"none", "done"} THEN l
    ELSE [Cancelled(l) EXCEPT !.stopped = TRUE, !.cancelled_at = l.pc]

\* stop_listening (182-189)
StopListening ==
    /\ listener.pc \notin {"none", "done"}
    /\ listener' = Stopped(listener)
    /\ client' = [Quiet(client) EXCEPT !.is_listening = FALSE]
    /\ ServerUnchanged

\* close (191-200)
ClientClose ==
    /\ listener' = Stopped(listener)
    /\ client' = [Quiet(client) EXCEPT
                     !.call = "close", !.session = FALSE,
                     !.is_registered = FALSE, !.reg_hist = FALSE,
                     !.is_listening =
                        IF listener.pc \in {"none", "done"} THEN @ ELSE FALSE]
    /\ ServerUnchanged

\* The calls of the client's API, and the other agents that register
NextClient ==
    \/ \E reaches \in BOOLEAN : ClientRegister(reaches)
    \/ \E fails \in BOOLEAN : ClientRegistered(fails)
    \/ \E content \in Contents, reaches \in BOOLEAN :
          next_seq < MaxMsgs /\ ClientSend(content, reaches)
    \/ \E fails \in BOOLEAN : ClientSent(fails)
    \/ ClientClose
    \/ \E id \in Agents \ {self_agent_id} : Register(id)

SpecClient == Init /\ [][NextClient]_vars

\* The listening task, its stream and the calls that start and stop it
NextListen ==
    \/ \E h \in Handlers : AddHandler(h)
    \/ StartListening
    \/ ListenStart
    \/ \E status \in Statuses : ListenOpened(status)
    \/ ListenOpenError
    \/ ListenSlept
    \/ \E line \in Lines : ListenLine(line)
    \/ ListenEof
    \/ ListenStreamError
    \/ HandlerReturns
    \/ HandlerRaises
    \/ StopListening
    \/ ClientClose

SpecListen == Init /\ [][NextListen]_vars

\* ------------------------------------------------------------------ claims
Count(q, P(_)) == Cardinality({i \in 1..Len(q) : P(q[i])})

RECURSIVE Sum(_, _)
Sum(f, S) ==
    IF S = {} THEN 0
    ELSE LET x == CHOOSE y \in S : TRUE IN f[x] + Sum(f, S \ {x})

\* The stream responses opened for agent a, live or over.
ConnsOf(a) == {c \in Conns : ev[c].agent_id = a}

\* How many data frames carrying message number n agent a was sent.
Delivered(a, n) ==
    Sum([c \in Conns |-> Count(written[c], LAMBDA m : m.seq = n)], ConnsOf(a))

\* How many times message number n is in the pending queue of agent a.
Queued(a, n) ==
    IF a \in Keys(message_queues)
    THEN Count(message_queues[a], LAMBDA m : m.seq = n) ELSE 0

Seqs == 1..MaxSeq

\* C1: a broadcast message is delivered to a recipient at most once over all
\* of the recipient's stream connections; stated for the messages broadcast
\* while the recipient had a live connection: such a message, pushed over
\* the live connection, is not sent again from the queue on a later subscribe.
C1_AtMostOnce ==
    \A a \in Agents, n \in Seqs :
        <<a, n>> \notin offline => Delivered(a, n) <= 1

\* C2: a message broadcast while agent a had no live connection is held
\* exactly once, by a's queue until a subscribes and by a's streams after
\* that: outside a running drain it is never in both and never in neither.
C2_QueueThenStream ==
    \A x \in offline :
        (\A c \in ConnsOf(x[1]) : ev[c].pc # "drain")
            => Queued(x[1], x[2]) + Delivered(x[1], x[2]) = 1

\* C3: a message of sender S is in no queue of S and on no stream of S, and
\* the fan-out of a send never handles its own sender.
C3_NoSelfDelivery ==
    /\ \A a \in Keys(message_queues) :
          \A i \in 1..Len(message_queues[a]) : message_queues[a][i].from # a
    /\ \A c \in Conns :
          \A i \in 1..Len(written[c]) : written[c][i].from # ev[c].agent_id
    /\ \A p \in Senders : snd[p].sender_id \notin snd[p].tried
    /\ resp.op = "send" => resp.id \notin resp.tried

\* A send returned success while its sender was registered and had an open
\* stream of its own, and the message went to another agent.
C3_Witness ==
    /\ resp.op = "send" /\ resp.status = 200
    /\ resp.tried # {}
    /\ resp.id \in Keys(sse_connections)
    /\ \E c \in sse_connections[resp.id] : conn_open[c] /\ ev[c].pc = "sleep"

\* C4: a send that passes validation returns success after it has handled
\* every agent other than the sender that was registered when its fan-out
\* started, whatever steps of other agents run at its awaits; stated for a
\* sender with no record of its own, so that every step in between was
\* another agent's.
C4_FanOutComplete ==
    (resp.op = "send" /\ resp.status # 400 /\ resp.id \notin registered)
        => /\ resp.status = 200
           /\ (resp.snap \ {resp.id}) \subseteq resp.tried

\* C5: a message broadcast while a subscribe is draining the queue is not
\* delivered both by the drain and by the live push: no stream carries the
\* same message twice.
C5_DrainNotInterleaved ==
    \A c \in Conns, n \in Seqs : Count(written[c], LAMBDA m : m.seq = n) <= 1

\* C6: a register with a non-empty id succeeds and leaves exactly one record
\* for the id; when the id was registered already, its pending messages and
\* its live connections are the ones it had.
C6_RegisterIdempotent ==
    [][(resp'.op = "register" /\ resp'.id \in Agents) =>
         LET id == resp'.id
         IN /\ resp'.status = 200
            /\ id \in Keys(message_queues')
            /\ id \in Keys(agent_last_seen')
            /\ Cardinality({i \in 1..Len(mq_entries') : mq_entries'[i] = id}) = 1
            /\ id \in Keys(message_queues) =>
                  message_queues'[id] = message_queues[id]
            /\ id \in Keys(sse_connections) =>
                  /\ id \in Keys(sse_connections')
                  /\ sse_connections'[id] = sse_connections[id]]_vars

\* A repeated register of an agent that has pending messages and a live
\* connection.
C6_Witness ==
    /\ resp.op = "register" /\ resp.status = 200
    /\ message_queues[resp.id] # <<>>
    /\ sse_connections[resp.id] # {}

\* A step of the sweep: GET /agents answered, or a record went away.
SweepStep ==
    \/ resp'.op = "agents"
    \/ Keys(agent_last_seen) \ Keys(agent_last_seen') # {}

\* C7: a sweep at time now removes every agent with now - lastSeen > 300
\* from all three maps and from the answer of GET /agents and force-closes
\* its connections, and a force-closed connection gets no broadcast any more.
C7_ReapEvictsAndCloses ==
    [][/\ SweepStep =>
            \A a \in Inactive(now) :
                /\ a \notin Keys(message_queues')
                /\ a \notin Keys(sse_connections')
                /\ a \notin Keys(agent_last_seen')
                /\ resp'.op = "agents" => a \notin resp'.agents
                /\ a \in Keys(sse_connections) =>
                      \A c \in sse_connections[a] : force_closed'[c]
       /\ \A c \in Conns :
            (force_closed[c] /\ ev'[c] = ev[c]) => written'[c] = written[c]]_vars

\* C8: no step removes the record of an agent whose idle time is at most
\* 300, and a sweep leaves its queue and its connections as they are.
C8_ActiveNotEvicted ==
    [][\A a \in Keys(agent_last_seen) :
          now - agent_last_seen[a] <= max_idle_time =>
             /\ a \in Keys(agent_last_seen')
             /\ a \in Keys(message_queues) => a \in Keys(message_queues')
             /\ a \in Keys(sse_connections) => a \in Keys(sse_connections')
             /\ SweepStep =>
                   /\ agent_last_seen'[a] = agent_last_seen[a]
                   /\ a \in Keys(message_queues) =>
                         message_queues'[a] = message_queues[a]
                   /\ a \in Keys(sse_connections) =>
                         sse_connections'[a] = sse_connections[a]]_vars

\* GET /agents has swept: an agent idle for exactly 300 is still there with
\* its live connection, and a connection of an evicted agent was closed.
C8_Witness ==
    /\ resp.op = "agents"
    /\ \E a \in resp.agents :
          /\ a \in Keys(agent_last_seen)
          /\ now - agent_last_seen[a] = max_idle_time
          /\ a \in Keys(sse_connections)
          /\ sse_connections[a] # {}
    /\ \E c \in Conns : force_closed[c] /\ ev[c].agent_id \notin resp.agents

\* C9: the ids GET /agents returns (the keys of message_queues) are the ids
\* registered or subscribed and not reaped since.
C9_KnownIffRegistered == Keys(message_queues) = registered

\* C10: a request rejected with 400 changes nothing but the response.
C10_RejectedUnchanged ==
    [][resp'.status = 400 =>
          UNCHANGED <<now, message_queues, mq_entries, sse_connections,
                      agent_last_seen, snd, ev, conn_open, force_closed,
                      written, next_seq>>]_vars

\* A send was rejected while an agent had a pending message and another an
\* open stream.
C10_Witness ==
    /\ resp.op = "send" /\ resp.status = 400
    /\ \E a \in Keys(message_queues) : message_queues[a] # <<>>
    /\ \E a \in Keys(sse_connections) : sse_connections[a] # {}

\* A step of the send coroutine p that was suspended in a push: its frame
\* moves on (a sweep or a register only marks the set it iterates).
PushReturns(p) ==
    /\ snd[p].pc = "write"
    /\ snd'[p] # [snd[p] EXCEPT !.orphan = snd'[p].orphan,
                                !.cset = snd'[p].cset]

\* The push the coroutine p awaits has failed: its connection went away.
PushFails(p) == PushReturns(p) /\ ~conn_open[snd[p].conn]

\* C11: when a push of a broadcast fails, the fan-out goes on: a send whose
\* awaited push has failed does not end in an error, and when it returns it
\* has handled every other agent that was registered when it started.
C11_PushFailureNotFatal ==
    [][\A p \in Senders :
          (PushFails(p) /\ resp'.op = "send") =>
              /\ resp'.status = 200
              /\ (resp'.snap \ {resp'.id}) \subseteq resp'.tried]_vars

\* C12: a connection on which a push has failed is in no agent's set of live
\* connections once the failure has been handled.
C12_FailedPushDetaches ==
    [][\A p \in Senders :
          PushFails(p) =>
              \A a \in Keys(sse_connections') :
                  snd[p].conn \notin sse_connections'[a]]_vars

\* The delays the listening task is to sleep after 1, 2, 3, ... failures in
\* a row.
Delays == <<1, 2, 4, 8, 16, 32, 60, 60>>
ExpectedDelay(k) == IF k <= Len(Delays) THEN Delays[k] ELSE 60

Sleeping(l) == l.pc \in {"sleep_fail", "sleep_err"}

\* C13: the delay slept after the k-th failure in a row is the k-th of 1, 2,
\* 4, 8, 16, 32, 60, 60, ...; it never exceeds 60, and while a stream opened
\* with status 200 is read it is 1 again.
C13_BackoffSequence ==
    /\ listener.reconnect_delay \in 1..60
    /\ Sleeping(listener) =>
          listener.reconnect_delay = ExpectedDelay(listener.fails)
    /\ listener.pc \in {"read", "handler"} => listener.reconnect_delay = 1

\* The task sleeps 60 for the second time, in a run of failures that began
\* after a successful open.
C13_Witness ==
    /\ Sleeping(listener)
    /\ listener.fails = 8
    /\ listener.reconnect_delay = 60
    /\ listener.streams >= 1

\* C14: the task opens the stream again only out of the sleep of the
\* current delay, and the delay is doubled (up to 60) on the way.
C14_WaitBeforeReopen ==
    [][(listener'.pc = "open" /\ listener.pc \notin {"open", "new"}) =>
          /\ Sleeping(listener)
          /\ listener'.reconnect_delay =
                IF listener.reconnect_delay * 2 > 60 THEN 60
                ELSE listener.reconnect_delay * 2]_vars

\* C15: once stop_listening has cancelled the task, the task is done: it
\* opens no stream and calls no handler any more.
C15_StopTerminates ==
    [][/\ listener'.stopped => listener'.pc = "done"
       /\ (listener.stopped /\ listener'.stopped) =>
             /\ listener'.dispatched = listener.dispatched
             /\ listener'.streams = listener.streams
             /\ listener'.lines = listener.lines]_vars

\* The task was cancelled while it awaited a handler.
C15_Witness ==
    /\ listener.stopped
    /\ listener.cancelled_at = "handler"
    /\ listener.pc = "done"
    /\ ~client.is_listening

\* C16: the listening task ends only by cancellation; after the failure of
\* an open, of the stream, of a decoding or of a handler it is still in its
\* loop, reading, or sleeping before the next open.
C16_LoopSurvivesErrors ==
    /\ listener.pc = "done" => listener.stopped
    /\ (listener.fails > 0 /\ ~listener.stopped) =>
          listener.pc \in {"sleep_fail", "sleep_err", "open"}

\* After a decode failure, a handler failure, a stream error and a failed
\* open the task is opening the stream again.
C16_Witness ==
    /\ listener.pc = "open"
    /\ ~listener.stopped
    /\ listener.fails >= 2
    /\ listener.streams >= 1
    /\ listener.seen = {"decode", "handler"}

\* C17: when the dispatch of an event is over, every registered handler has
\* been called with it, in the order of registration.
C17_DispatchAll ==
    [][(listener.pc = "handler" /\ listener'.pc = "read") =>
          listener'.called = client'.message_handlers]_vars

\* C18: a keepalive line, and a data line whose payload is not JSON, calls no
\* handler and leaves the task reading the stream with its delay unchanged.
C18_SkippedLines ==
    [][(/\ listener'.lines = listener.lines + 1
        /\ \/ IsPing(listener'.line)
           \/ IsData(listener'.line) /\ listener'.line.payload = "garbage")
         => /\ listener'.pc = "read"
            /\ listener'.reconnect_delay = listener.reconnect_delay
            /\ listener'.fails = listener.fails
            /\ listener'.dispatched = listener.dispatched
            /\ client'.is_listening]_vars

\* With a handler registered, a payload that is not JSON was dropped and the
\* line after it is being dispatched.
C18_Witness ==
    /\ "decode" \in listener.seen
    /\ listener.pc = "handler"
    /\ listener.lines = 2
    /\ listener.dispatched = 1

\* C19: a send puts a request on the wire only when a register of this
\* client has succeeded and close was not called since; otherwise it returns
\* False at once, and nothing of the relay changes.
C19_SendNeedsRegister ==
    [][/\ client'.posted = "send" => client.reg_hist
       /\ (/\ client'.call = "send" /\ client.pc = "idle"
           /\ client' # client /\ ~client.reg_hist)
            => /\ client'.ret = FALSE
               /\ client'.posted = "none"
               /\ UNCHANGED <<now, message_queues, mq_entries,
                              sse_connections, agent_last_seen, snd, ev,
                              conn_open, force_closed, written, next_seq>>]_vars

\* A send was refused after close, by a client that had sent before.
C19_Witness ==
    /\ client.call = "send" /\ ~client.ret
    /\ ~client.is_registered
    /\ ~client.session
    /\ next_seq >= 1

\* The agent has a record and has not been touched for more than 300.
Untouched(a) ==
    /\ a \in Keys(message_queues)
    /\ a \in Keys(agent_last_seen) => now - agent_last_seen[a] > max_idle_time

\* C20: the sweep keeps running, so an agent with a record that has not
\* been touched for more than 300 is evicted in the end, unless it is
\* touched again.
C20_EventuallyEvicted ==
    \A a \in Agents : Untouched(a) ~> ~Untouched(a)

\* A stream response attached for agent a whose initial drain is over: its
\* handler is in the keepalive loop and its transport accepts writes.
LiveDrained(a) ==
    {c \in Conns : /\ a \in Keys(sse_connections)
                   /\ c \in sse_connections[a]
                   /\ ev[c].pc \in {"ping", "sleep"}
                   /\ conn_open[c]}

\* C21: the pending queue of an agent holds only messages broadcast while
\* the agent had no live connection: an agent with an attached live
\* connection whose initial drain has completed has an empty queue.
C21_QueueOnlyOffline ==
    \A a \in Keys(message_queues) :
        LiveDrained(a) # {} => message_queues[a] = <<>>

\* The message numbers of the data frames written to stream response c.
FrameSeqs(c) == [i \in 1..Len(written[c]) |-> written[c][i].seq]

\* C22: on every stream connection the data frames are in the order in
\* which the relay accepted the messages: the queued ones first, in FIFO
\* order, and every message broadcast after the attach after them; a frame
\* never follows a frame of a message accepted later.
C22_FramesInOrder ==
    \A c \in Conns :
        \A i, j \in 1..Len(written[c]) :
            i < j => FrameSeqs(c)[i] <= FrameSeqs(c)[j]

\* The agents whose live-connection set holds stream response c.
AttachedTo(sc, c) == {a \in Keys(sc) : c \in sc[a]}

\* The handler of stream response c is left in this step.
Finishes(c) == ev[c].pc # "done" /\ ev'[c].pc = "done"

\* C23: when the handler of a subscription is left, for any reason, its
\* handle is detached: the handle of a finished handler is in no agent's
\* live-connection set, and the step that ends the handler changes the sets
\* by the removal of this handle only, also when the record was evicted or
\* re-created in between.
C23_DetachedOnce ==
    [][\A c \in Conns :
          /\ ev'[c].pc = "done" => AttachedTo(sse_connections', c) = {}
          /\ Finishes(c) =>
                /\ Keys(sse_connections') = Keys(sse_connections)
                /\ \A a \in Keys(sse_connections) :
                      sse_connections'[a] = sse_connections[a] \ {c}]_vars

\* A handler has finished after its agent was evicted (the sweep had found
\* the handle attached) and the record was created again, and another
\* handle is attached in the new record.
C23_Witness ==
    \E c \in Conns :
        /\ ev[c].pc = "done"
        /\ force_closed[c]
        /\ ev[c].agent_id \in Keys(sse_connections)
        /\ sse_connections[ev[c].agent_id] \ {c} # {}

\* C24: while an agent keeps its record, its lastSeen never decreases,
\* whatever register, send, subscribe and keepalive steps interleave: every
\* step that leaves the entry in place leaves it at least as large.
C24_LastSeenMonotonic ==
    [][\A a \in Keys(agent_last_seen) \cap Keys(agent_last_seen') :
          agent_last_seen'[a] >= agent_last_seen[a]]_vars

\* An agent whose record holds a message queued at an earlier time has just
\* registered again: its lastSeen was set a second time, to a later time.
C24_Witness ==
    /\ resp.op = "register" /\ resp.status = 200
    /\ resp.id \in Keys(message_queues) \cap Keys(agent_last_seen)
    /\ message_queues[resp.id] # <<>>
    /\ message_queues[resp.id][1].timestamp < agent_last_seen[resp.id]

C26_MapsAgree ==
    /\ Keys(message_queues) = Keys(sse_connections)
    /\ Keys(sse_connections) = Keys(agent_last_seen)
====
